---- MODULE Spec2Model ----
(***************************************************************************)
(* Model of custom_components/schluter/__init__.py: the session-aware      *)
(* polling coordinator SchluterDataUpdateCoordinator and the config entry  *)
(* life cycle around it.  One tick is one invocation of                    *)
(* _async_update_data; the coroutine is suspended at the awaits on the two *)
(* library calls async_get_sessionid (credential exchange) and             *)
(* async_get_current_thermostats (fetch), and each action below is one     *)
(* resumption of the coroutine with one outcome of the awaited call.       *)
(***************************************************************************)
EXTENDS Integers, Sequences, FiniteSets, TLC

\* ------------------------------------------------------------------ bounds
MaxTokens == 3
MaxDevices == 1
MaxReadings == 2
\* Ticks ending without a snapshot are counted up to MaxMissed.
MaxMissed == 2

\* ------------------------------------------------------------------ values
\* Python's None: the absent session id and the value of a coroutine that
\* falls off its end.
None == << >>

\* Session ids the service can issue (opaque strings in the code).
Tokens == { <<i>> : i \in 1..MaxTokens }

\* A device snapshot: the dict[str, Any] mapping device id -> reading.
Snapshots == [1..MaxDevices -> 1..MaxReadings]

\* Failures of the credential exchange async_get_sessionid.
ExchangeErrors == {"InvalidUserPasswordError", "ApiError", "ClientConnectorError"}

\* Failures of the fetch async_get_current_thermostats.
FetchErrors == {"InvalidSessionIdError", "ApiError", "ClientConnectorError"}

VARIABLES
    sessionid,  \* self._sessionid: None or the held token
    pc,         \* where the coroutine _async_update_data is suspended
    result,     \* how the current/last tick ended, as seen by the host
    tick,       \* what the calls of the current/last tick were and returned
    prev,       \* the same record for the tick before it
    setup,      \* where the config entry is in async_setup_entry
    registry,   \* entry.entry_id is a key of hass.data[DOMAIN]
    platforms,  \* the PLATFORMS of the entry are set up
    fatal,      \* a tick of this coordinator has raised ConfigEntryAuthFailed
    stale,      \* the service has rejected the held token
    recovery,   \* the service has recovered; the ticks that ended since
    pc2         \* where a second, overlapping invocation is suspended

vars == <<sessionid, pc, result, tick, prev, setup, registry, platforms,
          fatal, stale, recovery, pc2>>

\* ------------------------------------------------------- tick bookkeeping
\* Call record of a tick in which nothing has been called yet.
NewTick(tok) ==
    [ startTok    |-> tok,    \* self._sessionid when the tick started
      exchange    |-> "",     \* outcome of the exchange of lines 98-100
      exchangeTok |-> None,   \* token that exchange returned
      exchangeCalls |-> 0,    \* calls of async_get_sessionid
      fetchCalls  |-> 0,      \* calls of async_get_current_thermostats
      fetchTok    |-> None,   \* token the fetch was called with
      fetch       |-> "",     \* outcome of the fetch of line 101
      fetchSnap   |-> None,   \* mapping the fetch returned
      reauth      |-> "",     \* outcome of the exchange of lines 106-108
      reauthTok   |-> None,   \* token that exchange returned
      endTok      |-> None ]  \* self._sessionid when the tick ended

NoResult == [kind |-> "none",    value |-> None, exc |-> ""]
Running  == [kind |-> "running", value |-> None, exc |-> ""]
Return(v) == [kind |-> "return", value |-> v, exc |-> ""]
Raise(e)  == [kind |-> "raise",  value |-> None, exc |-> e]

\* ---------------------------------------------------- exception handling
\* Variant of OuterExcept whose InvalidUserPasswordError clause raises
\* UpdateFailed.
OuterExcept_AuthAsUpdate(e) ==
    CASE e = "InvalidSessionIdError"    -> "handler"
      [] e \in {"InvalidUserPasswordError", "ApiError", "ClientConnectorError"}
                                        -> "UpdateFailed"
      [] OTHER -> e

\* Variant of OuterExcept with one more clause, which turns the timeout into
\* UpdateFailed.
OuterExcept_CatchTimeout(e) ==
    CASE e = "InvalidSessionIdError"    -> "handler"
      [] e = "InvalidUserPasswordError" -> "ConfigEntryAuthFailed"
      [] e \in {"ApiError", "ClientConnectorError", "TimeoutError"}
                                        -> "UpdateFailed"
      [] OTHER -> e

\* Variant of OuterExcept without the InvalidSessionIdError clause.
OuterExcept_NoSessionClause(e) ==
    CASE e = "InvalidUserPasswordError" -> "ConfigEntryAuthFailed"
      [] e \in {"ApiError", "ClientConnectorError"} -> "UpdateFailed"
      [] OTHER -> e

\* Variant of OuterExcept that re-authenticates on a service error too.
OuterExcept_ApiReauth(e) ==
    CASE e \in {"InvalidSessionIdError", "ApiError", "ClientConnectorError"}
                                        -> "handler"
      [] e = "InvalidUserPasswordError" -> "ConfigEntryAuthFailed"
      [] OTHER -> e

\* Variant of OuterExcept that tries the credentials again when they are
\* reported invalid.
OuterExcept_RetryInvalid(e) ==
    CASE e \in {"InvalidSessionIdError", "InvalidUserPasswordError"}
                                        -> "handler"
      [] e \in {"ApiError", "ClientConnectorError"} -> "UpdateFailed"
      [] OTHER -> e

\* The except clauses of the outer try statement (lines 102-116), applied to
\* an exception leaving the timeout block: "handler" is the body of the
\* InvalidSessionIdError clause; an exception no clause names propagates.
OuterExcept(e) ==
    CASE e = "InvalidSessionIdError"    -> "handler"
      [] e = "InvalidUserPasswordError" -> "ConfigEntryAuthFailed"
      [] e \in {"ApiError", "ClientConnectorError"} -> "UpdateFailed"
      [] OTHER -> e

\* Variant of InnerExcept whose InvalidUserPasswordError clause raises
\* UpdateFailed.
InnerExcept_AuthAsUpdate(e) ==
    CASE e \in {"InvalidUserPasswordError", "ApiError", "ClientConnectorError"}
                                        -> "UpdateFailed"
      [] OTHER -> e

\* Variant of InnerExcept whose service-error clause raises
\* ConfigEntryAuthFailed.
InnerExcept_ApiAsAuth(e) ==
    CASE e \in {"InvalidUserPasswordError", "ApiError", "ClientConnectorError"}
                                        -> "ConfigEntryAuthFailed"
      [] OTHER -> e

\* The except clauses of the inner try statement (lines 109-112).
InnerExcept(e) ==
    CASE e = "InvalidUserPasswordError" -> "ConfigEntryAuthFailed"
      [] e \in {"ApiError", "ClientConnectorError"} -> "UpdateFailed"
      [] OTHER -> e

\* ------------------------------------------------------ config entry setup
\* Variant of SetupContinues that stores the coordinator and sets up the
\* platforms whatever the first refresh did.
SetupContinues_IgnoreFailure(res) ==
    IF setup = "first_refresh"
    THEN /\ setup' = IF res.kind = "raise" THEN "failed" ELSE "loaded"
         /\ registry' = TRUE
         /\ platforms' = TRUE
    ELSE UNCHANGED <<setup, registry, platforms>>

\* async_setup_entry resumes after the await of line 45, the first refresh
\* having ended with res.  When the tick raised, the host's
\* async_config_entry_first_refresh raises too and setup ends there; otherwise
\* lines 47-53 store the coordinator under entry.entry_id and set up the
\* platforms.  A tick that is not the first refresh leaves the entry alone.
SetupContinues(res) ==
    IF setup = "first_refresh"
    THEN IF res.kind = "raise"
         THEN /\ setup' = "failed"
              /\ UNCHANGED <<registry, platforms>>
         ELSE /\ setup' = "loaded"
              /\ registry' = TRUE
              /\ platforms' = TRUE
    ELSE UNCHANGED <<setup, registry, platforms>>

\* res is a snapshot returned by a tick.
IsSnapshot(res) == res.kind = "return" /\ res.value \in Snapshots

\* The tick ends: the coroutine returns or raises res to the host.
Finish(res, t, tok) ==
    /\ pc' = "idle"
    /\ result' = res
    /\ tick' = [t EXCEPT !.endTok = tok]
    /\ fatal' = (fatal \/ res.exc = "ConfigEntryAuthFailed")
    /\ recovery' =
          IF recovery.on
          THEN [recovery EXCEPT
                  !.served = @ \/ IsSnapshot(res),
                  !.missed = IF IsSnapshot(res) \/ @ = MaxMissed
                             THEN @ ELSE @ + 1]
          ELSE recovery
    /\ SetupContinues(res)

\* An exception e leaves the timeout block; t is the call record of the tick.
LeaveBlock(e, t) ==
    IF OuterExcept(e) = "handler"
    THEN /\ pc' = "reauth"
         /\ tick' = [t EXCEPT !.reauth = "pending", !.exchangeCalls = @ + 1]
         /\ result' = result
         /\ stale' = TRUE
         /\ UNCHANGED <<setup, registry, platforms, fatal, recovery>>
    ELSE /\ Finish(Raise(OuterExcept(e)), t, sessionid)
         /\ stale' = stale

\* ------------------------------------------------------------------ state
\* No config entry is set up and no coordinator exists.
Init ==
    /\ sessionid = None
    /\ pc = "idle"
    /\ result = NoResult
    /\ tick = NewTick(None)
    /\ prev = NewTick(None)
    /\ setup = "unloaded"
    /\ registry = FALSE
    /\ platforms = FALSE
    /\ fatal = FALSE
    /\ stale = FALSE
    /\ recovery = [on |-> FALSE, served |-> FALSE, missed |-> 0]
    /\ pc2 = "idle"

\* Variant of Construct that takes over the session id held before.
Construct_KeepToken ==
    /\ sessionid' = sessionid
    /\ prev' = NewTick(None)
    /\ fatal' = FALSE
    /\ stale' = stale

\* SchluterDataUpdateCoordinator.__init__: a coordinator that holds no token
\* and has run no tick.
Construct ==
    /\ sessionid' = None
    /\ prev' = NewTick(None)
    /\ fatal' = FALSE
    /\ stale' = FALSE

\* _async_update_data is entered with self._sessionid = tok: the coroutine
\* enters the timeout block and awaits the exchange if no token is held, the
\* fetch otherwise.
StartTick(tok) ==
    /\ result' = Running
    /\ IF tok = None
       THEN /\ pc' = "exchange"
            /\ tick' = [NewTick(tok) EXCEPT !.exchange = "pending",
                                            !.exchangeCalls = 1]
       ELSE /\ pc' = "fetch"
            /\ tick' = [NewTick(tok) EXCEPT !.fetch = "pending",
                                            !.fetchCalls = 1,
                                            !.fetchTok = tok]

\* async_setup_entry up to the await of line 45: a coordinator is constructed
\* and its first refresh starts.  The host sets up an entry that is not
\* loaded, again after a setup that failed.
async_setup_entry ==
    /\ setup \in {"unloaded", "failed"}
    /\ pc = "idle"
    /\ Construct
    /\ StartTick(sessionid')
    /\ setup' = "first_refresh"
    /\ UNCHANGED <<registry, platforms, recovery, pc2>>

\* async_unload_entry: when the host could unload the platforms, the entry is
\* popped from hass.data[DOMAIN].  The host unloads between two refreshes.
async_unload_entry(unload_ok) ==
    /\ setup = "loaded"
    /\ pc = "idle" /\ pc2 = "idle"
    /\ IF unload_ok
       THEN /\ setup' = "unloaded"
            /\ registry' = FALSE
            /\ platforms' = FALSE
       ELSE UNCHANGED <<setup, registry, platforms>>
    /\ UNCHANGED <<sessionid, pc, result, tick, prev, fatal, stale, recovery,
                   pc2>>

\* update_listener: the host reloads the entry, that is, unloads it and sets
\* it up again with a new coordinator.
update_listener ==
    /\ setup = "loaded"
    /\ pc = "idle" /\ pc2 = "idle"
    /\ registry' = FALSE
    /\ platforms' = FALSE
    /\ Construct
    /\ StartTick(sessionid')
    /\ setup' = "first_refresh"
    /\ UNCHANGED <<recovery, pc2>>

\* The host's schedule invokes _async_update_data on the coordinator of the
\* loaded entry.
TickStart ==
    /\ pc = "idle"
    /\ setup = "loaded"
    /\ prev' = tick
    /\ sessionid' = sessionid
    /\ StartTick(sessionid)
    /\ UNCHANGED <<setup, registry, platforms, fatal, stale, recovery, pc2>>

\* Variant of GetSessionIdReturns that passes the token to the fetch without
\* storing it in self._sessionid.
GetSessionIdReturns_NoStore(tok) ==
    /\ pc = "exchange"
    /\ sessionid' = sessionid
    /\ pc' = "fetch"
    /\ tick' = [tick EXCEPT !.exchange = "ok", !.exchangeTok = tok,
                            !.fetch = "pending",
                            !.fetchCalls = @ + 1,
                            !.fetchTok = tok]
    /\ UNCHANGED <<result, prev, setup, registry, platforms, fatal, stale,
                   recovery, pc2>>

\* async_get_sessionid of lines 98-100 returns token tok: it is stored and
\* the fetch is called with it.
GetSessionIdReturns(tok) ==
    /\ pc = "exchange"
    /\ sessionid' = tok
    /\ stale' = FALSE
    /\ pc' = "fetch"
    /\ tick' = [tick EXCEPT !.exchange = "ok", !.exchangeTok = tok,
                            !.fetch = "pending",
                            !.fetchCalls = @ + 1,
                            !.fetchTok = tok]
    /\ UNCHANGED <<result, prev, setup, registry, platforms, fatal, recovery,
                   pc2>>

\* async_get_sessionid of lines 98-100 raises e.
GetSessionIdRaises(e) ==
    /\ pc = "exchange"
    /\ LeaveBlock(e, [tick EXCEPT !.exchange = e])
    /\ UNCHANGED <<sessionid, prev, pc2>>

\* Variant of ThermostatsReturns that returns the mapping with every reading
\* reset to 1.
ThermostatsReturns_Modified(snap) ==
    /\ pc = "fetch"
    /\ Finish(Return([d \in DOMAIN snap |-> 1]),
              [tick EXCEPT !.fetch = "ok", !.fetchSnap = snap], sessionid)
    /\ UNCHANGED <<sessionid, prev, stale, pc2>>

\* async_get_current_thermostats returns the mapping snap.
ThermostatsReturns(snap) ==
    /\ pc = "fetch"
    /\ Finish(Return(snap), [tick EXCEPT !.fetch = "ok", !.fetchSnap = snap],
              sessionid)
    /\ UNCHANGED <<sessionid, prev, stale, pc2>>

\* Variant of ThermostatsRaises that drops the held token on a failed fetch.
ThermostatsRaises_DropToken(e) ==
    /\ pc = "fetch"
    /\ LeaveBlock(e, [tick EXCEPT !.fetch = e])
    /\ sessionid' = None
    /\ UNCHANGED <<prev, pc2>>

\* async_get_current_thermostats raises e.
ThermostatsRaises(e) ==
    /\ pc = "fetch"
    /\ LeaveBlock(e, [tick EXCEPT !.fetch = e])
    /\ UNCHANGED <<sessionid, prev, pc2>>

\* The 10 second timeout of line 96 fires while the call awaited inside the
\* block is outstanding: the call is cancelled and the block raises
\* asyncio.TimeoutError.
TimeoutFires ==
    /\ pc \in {"exchange", "fetch"}
    /\ LeaveBlock("TimeoutError",
                  IF pc = "exchange"
                  THEN [tick EXCEPT !.exchange = "TimeoutError"]
                  ELSE [tick EXCEPT !.fetch = "TimeoutError"])
    /\ UNCHANGED <<sessionid, prev, pc2>>

\* Variant of ReauthReturns that calls the fetch again with the new token.
ReauthReturns_Retry(tok) ==
    /\ pc = "reauth"
    /\ sessionid' = tok
    /\ stale' = FALSE
    /\ pc' = "fetch"
    /\ tick' = [tick EXCEPT !.reauth = "ok", !.reauthTok = tok,
                            !.fetchCalls = @ + 1, !.fetchTok = tok]
    /\ UNCHANGED <<result, prev, setup, registry, platforms, fatal, recovery,
                   pc2>>

\* Variant of ReauthReturns that drops the new token.
ReauthReturns_NoStore(tok) ==
    /\ pc = "reauth"
    /\ sessionid' = sessionid
    /\ stale' = stale
    /\ Finish(Return(None), [tick EXCEPT !.reauth = "ok", !.reauthTok = tok],
              sessionid)
    /\ UNCHANGED <<prev, pc2>>

\* async_get_sessionid of lines 106-108 returns token tok: it is stored and
\* the coroutine falls off its end.
ReauthReturns(tok) ==
    /\ pc = "reauth"
    /\ sessionid' = tok
    /\ stale' = FALSE
    /\ Finish(Return(None), [tick EXCEPT !.reauth = "ok", !.reauthTok = tok],
              tok)
    /\ UNCHANGED <<prev, pc2>>

\* Variant of ReauthRaises that calls the exchange again.
ReauthRaises_Retry(e) ==
    /\ pc = "reauth"
    /\ tick' = [tick EXCEPT !.reauth = "pending", !.exchangeCalls = @ + 1]
    /\ UNCHANGED <<sessionid, pc, result, prev, setup, registry, platforms,
                   fatal, stale, recovery, pc2>>

\* async_get_sessionid of lines 106-108 raises e.
ReauthRaises(e) ==
    /\ pc = "reauth"
    /\ Finish(Raise(InnerExcept(e)), [tick EXCEPT !.reauth = e], sessionid)
    /\ UNCHANGED <<sessionid, prev, stale, pc2>>

\* The service does not issue again the session id it has just rejected, so
\* the exchange of lines 106-108 returns a token other than tick.fetchTok.
Next ==
    \/ async_setup_entry
    \/ \E unload_ok \in BOOLEAN : async_unload_entry(unload_ok)
    \/ update_listener
    \/ TickStart
    \/ \E tok \in Tokens : GetSessionIdReturns(tok)
    \/ \E e \in ExchangeErrors : GetSessionIdRaises(e)
    \/ \E snap \in Snapshots : ThermostatsReturns(snap)
    \/ \E e \in FetchErrors : ThermostatsRaises(e)
    \/ TimeoutFires
    \/ \E tok \in Tokens \ {tick.fetchTok} : ReauthReturns(tok)
    \/ \E e \in ExchangeErrors : ReauthRaises(e)

Spec == Init /\ [][Next]_vars

TypeOK ==
    /\ sessionid \in Tokens \cup {None}
    /\ pc \in {"idle", "exchange", "fetch", "reauth"}
    /\ result.kind \in {"none", "running", "return", "raise"}
    /\ setup \in {"unloaded", "first_refresh", "loaded", "failed"}
    /\ registry \in BOOLEAN /\ platforms \in BOOLEAN
    /\ fatal \in BOOLEAN /\ stale \in BOOLEAN
    /\ recovery.on \in BOOLEAN /\ recovery.served \in BOOLEAN
    /\ recovery.missed \in 0..MaxMissed
    /\ pc2 \in {"idle", "exchange", "fetch", "reauth"}

\* ------------------------------------------------- overlapping invocations
\* The code takes no lock and keeps no in-flight flag, so an invocation of
\* _async_update_data made while another one is suspended runs as well.  The
\* actions below are that second invocation; pc2 is where it is suspended.

\* The host invokes _async_update_data while an invocation is suspended in a
\* network operation.  The loaded coordinator holds a token (line 97 finds it
\* not None), so the second invocation awaits the fetch of line 101.
OverlapTickStart ==
    /\ setup = "loaded"
    /\ pc # "idle"
    /\ pc2 = "idle"
    /\ sessionid # None
    /\ pc2' = "fetch"
    /\ UNCHANGED <<sessionid, pc, result, tick, prev, setup, registry,
                   platforms, fatal, stale, recovery>>

\* The fetch of the second invocation returns, raises a service error or is
\* cancelled by the timeout: the invocation ends and leaves the token alone.
OverlapThermostatsEnds ==
    /\ pc2 = "fetch"
    /\ pc2' = "idle"
    /\ UNCHANGED <<sessionid, pc, result, tick, prev, setup, registry,
                   platforms, fatal, stale, recovery>>

\* The fetch of the second invocation raises InvalidSessionIdError: the
\* handler awaits the exchange of lines 106-108.
OverlapThermostatsExpired ==
    /\ pc2 = "fetch"
    /\ pc2' = "reauth"
    /\ stale' = TRUE
    /\ UNCHANGED <<sessionid, pc, result, tick, prev, setup, registry,
                   platforms, fatal, recovery>>

\* The exchange of lines 106-108 of the second invocation returns tok.
OverlapReauthReturns(tok) ==
    /\ pc2 = "reauth"
    /\ sessionid' = tok
    /\ stale' = FALSE
    /\ pc2' = "idle"
    /\ UNCHANGED <<pc, result, tick, prev, setup, registry, platforms, fatal,
                   recovery>>

\* The exchange of lines 106-108 of the second invocation raises.
OverlapReauthRaises ==
    /\ pc2 = "reauth"
    /\ pc2' = "idle"
    /\ UNCHANGED <<sessionid, pc, result, tick, prev, setup, registry,
                   platforms, fatal, stale, recovery>>

NextOverlap ==
    \/ Next
    \/ OverlapTickStart
    \/ OverlapThermostatsEnds
    \/ OverlapThermostatsExpired
    \/ \E tok \in Tokens : OverlapReauthReturns(tok)
    \/ OverlapReauthRaises

\* The coordinator with a host that may invoke overlapping ticks.
SpecOverlap == Init /\ [][NextOverlap]_vars

\* ---------------------------------------------------------------- recovery
\* From some point on the service is healthy.
Recover ==
    /\ ~recovery.on
    /\ recovery' = [recovery EXCEPT !.on = TRUE]
    /\ UNCHANGED <<sessionid, pc, result, tick, prev, setup, registry,
                   platforms, fatal, stale, pc2>>

\* The steps of a tick while the service is healthy: the host sets the entry
\* up and invokes ticks, every exchange returns a token, and every fetch
\* returns a mapping, unless it is made with a token the service has rejected,
\* which the service may reject again.
HealthyStep ==
    \/ async_setup_entry
    \/ TickStart
    \/ \E tok \in Tokens : GetSessionIdReturns(tok)
    \/ \E snap \in Snapshots : ThermostatsReturns(snap)
    \/ stale /\ ThermostatsRaises("InvalidSessionIdError")
    \/ \E tok \in Tokens \ {tick.fetchTok} : ReauthReturns(tok)

NextRecovery ==
    \/ ~recovery.on /\ Next
    \/ Recover
    \/ recovery.on /\ HealthyStep
    \/ recovery.on /\ \E unload_ok \in BOOLEAN : async_unload_entry(unload_ok)
    \/ recovery.on /\ update_listener

\* Once the service is healthy the host keeps invoking ticks and the calls of
\* a tick return.
SpecRecovery ==
    Init /\ [][NextRecovery]_vars /\ WF_vars(recovery.on /\ HealthyStep)

\* ------------------------------------------------------------- properties
\* The tick recorded in `tick` has ended.
Ended == pc = "idle" /\ result.kind \in {"return", "raise"}

\* The timeout fired in the tick recorded in t.
TimedOut(t) == t.exchange = "TimeoutError" \/ t.fetch = "TimeoutError"

\* In the tick recorded in t the exchange succeeded starting from no token.
ExchangedFromNone(t) == t.startTok = None /\ t.exchange = "ok"

\* In the tick recorded in t the fetch reported session-expired and the
\* forced re-authentication succeeded.
Reauthed(t) == t.fetch = "InvalidSessionIdError" /\ t.reauth = "ok"

\* The token of the last successful exchange of the tick recorded in t.
LastObtained(t) == IF t.reauth = "ok" THEN t.reauthTok ELSE t.exchangeTok

\* C1: a tick started with no held token whose credential exchange reports
\* invalid credentials ends by raising ConfigEntryAuthFailed, and the fetch
\* is not called in that tick.
C1_InvalidCredentialsFatalNoFetch ==
    (tick.startTok = None /\ tick.exchange = "InvalidUserPasswordError")
        => /\ pc = "idle"
           /\ result = Raise("ConfigEntryAuthFailed")
           /\ tick.fetchCalls = 0

C1_Witness ==
    /\ Ended
    /\ tick.startTok = None
    /\ tick.exchange = "InvalidUserPasswordError"

\* C2 as stated: a tick in which the timeout fires while the exchange or the
\* fetch is outstanding raises UpdateFailed and nothing else.
C2_TimeoutRaisesUpdateFailed ==
    TimedOut(tick) => (pc = "idle" /\ result = Raise("UpdateFailed"))

\* C2 amended: a tick in which the timeout fires while the exchange or the
\* fetch is outstanding raises asyncio.TimeoutError, which no except clause
\* converts: it is neither ConfigEntryAuthFailed nor UpdateFailed nor any
\* other error.
C2_TimeoutRaisesTimeoutError ==
    TimedOut(tick) => (pc = "idle" /\ result = Raise("TimeoutError"))

\* The timeout fires in a fetch made with the token cached by the tick before.
C2_Witness ==
    /\ Ended
    /\ prev.exchange = "ok"
    /\ tick.startTok # None
    /\ tick.fetch = "TimeoutError"

\* C3: every tick that has ended either returned the snapshot produced by a
\* fetch call of that same tick, or raised a retryable failure (UpdateFailed,
\* or the timeout error the host also retries) or ConfigEntryAuthFailed.
C3_SnapshotOrClassifiedFailure ==
    Ended =>
        \/ /\ result.kind = "return"
           /\ tick.fetch = "ok"
           /\ result.value \in Snapshots
           /\ result.value = tick.fetchSnap
        \/ /\ result.kind = "raise"
           /\ result.exc \in {"UpdateFailed", "TimeoutError",
                              "ConfigEntryAuthFailed"}

\* C4: when the fetch reports session-expired and the forced
\* re-authentication succeeds, the tick ends without raising and the fetch
\* has been called exactly once in it.
C4_ReauthOkNoErrorNoRetry ==
    Reauthed(tick) => /\ pc = "idle"
                      /\ result.kind = "return"
                      /\ tick.fetchCalls = 1

C4_Witness ==
    /\ Ended
    /\ Reauthed(tick)
    /\ tick.startTok # None

\* C5: when the fetch reports session-expired and the forced
\* re-authentication reports invalid credentials, the tick raises
\* ConfigEntryAuthFailed, whether the fetch used a cached token or one
\* obtained in the same tick.
C5_ReauthInvalidCredentialsFatal ==
    (tick.fetch = "InvalidSessionIdError"
        /\ tick.reauth = "InvalidUserPasswordError")
        => (pc = "idle" /\ result = Raise("ConfigEntryAuthFailed"))

\* The token was obtained in the tick before and is cached in this one.
C5_Witness ==
    /\ Ended
    /\ prev.exchange = "ok"
    /\ tick.startTok # None
    /\ tick.exchange = ""
    /\ tick.fetch = "InvalidSessionIdError"
    /\ tick.reauth = "InvalidUserPasswordError"

\* C6: when the fetch reports session-expired and the forced
\* re-authentication reports a service error, the tick raises UpdateFailed.
C6_ReauthServiceErrorRetryable ==
    (tick.fetch = "InvalidSessionIdError"
        /\ tick.reauth \in {"ApiError", "ClientConnectorError"})
        => (pc = "idle" /\ result = Raise("UpdateFailed"))

C6_Witness ==
    /\ Ended
    /\ prev.fetch = "InvalidSessionIdError"
    /\ prev.reauth = "ApiError"
    /\ tick.fetch = "InvalidSessionIdError"
    /\ tick.reauth = "ClientConnectorError"

\* C7: when the exchange (if one was needed) and the fetch both succeed, the
\* tick returns exactly the mapping the fetch produced.
C7_ReturnsFetchedSnapshot ==
    (tick.exchange \in {"", "ok"} /\ tick.fetch = "ok")
        => /\ pc = "idle"
           /\ tick.fetchSnap \in Snapshots
           /\ result = Return(tick.fetchSnap)

\* Two successful ticks with different mappings, with and without exchange.
C7_Witness ==
    /\ Ended
    /\ prev.exchange = "ok" /\ prev.fetch = "ok"
    /\ tick.exchange = "" /\ tick.fetch = "ok"
    /\ tick.fetchSnap # prev.fetchSnap

\* C8 as stated: after a tick in which the exchange succeeded starting from
\* no token, the token that exchange returned is held, and the next tick
\* calls the fetch with it without an exchange first.
C8_ExchangedTokenCached ==
    /\ (Ended /\ ExchangedFromNone(tick)) => sessionid = tick.exchangeTok
    /\ ExchangedFromNone(prev) => /\ tick.exchange = ""
                                  /\ tick.fetchCalls = 1
                                  /\ tick.fetchTok = prev.exchangeTok

\* C8 amended: after such a tick the token of the tick's last successful
\* exchange is held (the one of the forced re-authentication if the fetch
\* reported session-expired and the re-authentication succeeded), and the
\* next tick calls the fetch with it without an exchange first.
C8_LastObtainedTokenCached ==
    /\ (Ended /\ ExchangedFromNone(tick)) =>
            (sessionid = LastObtained(tick) /\ sessionid # None)
    /\ ExchangedFromNone(prev) => /\ tick.exchange = ""
                                  /\ tick.fetchCalls = 1
                                  /\ tick.fetchTok = LastObtained(prev)

C8_Witness ==
    /\ ExchangedFromNone(prev)
    /\ prev.fetch = "ok"
    /\ pc = "fetch"
    /\ tick.fetchTok = prev.exchangeTok

\* C9: after a tick in which the fetch reported session-expired and the
\* forced re-authentication succeeded, the held token is the newly issued
\* one and not the rejected one, and the next tick calls the fetch with it
\* without an exchange first.
C9_ReauthTokenCached ==
    /\ (Ended /\ Reauthed(tick)) => /\ sessionid = tick.reauthTok
                                    /\ sessionid # tick.fetchTok
                                    /\ sessionid # None
    /\ Reauthed(prev) => /\ tick.exchange = ""
                         /\ tick.fetchCalls = 1
                         /\ tick.fetchTok = prev.reauthTok
                         /\ tick.fetchTok # prev.fetchTok

C9_Witness ==
    /\ Reauthed(prev)
    /\ pc = "fetch"
    /\ tick.fetchTok = prev.reauthTok

\* C10 as stated: InvalidSessionIdError never leaves a tick, and a tick that
\* fails raises UpdateFailed or ConfigEntryAuthFailed only.
C10_OnlyUpdateFailedOrAuthFailed ==
    result.kind = "raise" =>
        result.exc \in {"UpdateFailed", "ConfigEntryAuthFailed"}

\* C10 amended: InvalidSessionIdError never leaves a tick; a tick that fails
\* raises UpdateFailed, ConfigEntryAuthFailed or, when the timeout fired,
\* asyncio.TimeoutError.
C10_SessionExpiredAbsorbed ==
    result.kind = "raise" =>
        /\ result.exc # "InvalidSessionIdError"
        /\ result.exc \in {"UpdateFailed", "ConfigEntryAuthFailed",
                           "TimeoutError"}
        /\ result.exc = "TimeoutError" => TimedOut(tick)

C10_Witness ==
    /\ Ended
    /\ result.kind = "raise"
    /\ tick.fetch = "InvalidSessionIdError"
    /\ prev.fetch = "InvalidSessionIdError"
    /\ prev.reauth = "ok"

\* ServiceError of the external interfaces.
ServiceErrors == {"ApiError", "ClientConnectorError"}

\* C11: a service-level or network failure of the fetch, or of the exchange
\* of ensure_token, ends the tick with UpdateFailed, never with
\* ConfigEntryAuthFailed, and no re-authentication is made in that tick.
C11_ServiceErrorRetryableNoReauth ==
    (tick.fetch \in ServiceErrors \/ tick.exchange \in ServiceErrors)
        => /\ pc = "idle"
           /\ result = Raise("UpdateFailed")
           /\ tick.reauth = ""
           /\ tick.exchangeCalls = IF tick.exchange = "" THEN 0 ELSE 1

C11_Witness ==
    /\ Ended
    /\ prev.fetch = "ApiError"
    /\ tick.startTok # None
    /\ tick.fetch = "ClientConnectorError"

\* C12: at most one tick is in flight and at most one credential exchange is
\* in flight, also when the host starts a tick while another is suspended in
\* a network operation.
C12_OneTickOneExchangeInFlight ==
    /\ ~(pc # "idle" /\ pc2 # "idle")
    /\ ~(pc \in {"exchange", "reauth"} /\ pc2 \in {"exchange", "reauth"})

\* C13: from the moment a fetch reports session-expired until a forced
\* re-authentication succeeds, no token is held; in particular the rejected
\* token is not held after a tick whose forced re-authentication failed.
C13_ForcedReauthDiscardsToken ==
    (tick.fetch = "InvalidSessionIdError" /\ tick.reauth # "ok")
        => sessionid = None

\* C14: the timeout covers every network operation of the tick, the forced
\* re-authentication included: while one is outstanding the timeout can fire,
\* and a tick in which it fired has ended with a retryable failure.
C14_TimeoutCoversWholeTick ==
    /\ pc \in {"exchange", "fetch", "reauth"} => ENABLED TimeoutFires
    /\ TimedOut(tick) => /\ pc = "idle"
                         /\ result.kind = "raise"
                         /\ result.exc \in {"UpdateFailed", "TimeoutError"}

\* C15 as stated: once a tick of the coordinator has raised
\* ConfigEntryAuthFailed, the coordinator never again has a credential
\* exchange or a fetch outstanding.
C15_AuthFailedTerminal ==
    fatal => pc = "idle"

\* C15 amended: the report of invalid credentials ends the tick with
\* ConfigEntryAuthFailed and nothing is called after it in that tick (the
\* credentials are not tried again); the coordinator keeps no terminal state.
C15_InvalidCredentialsEndTick ==
    /\ tick.exchange = "InvalidUserPasswordError"
         => /\ pc = "idle" /\ result = Raise("ConfigEntryAuthFailed") /\ fatal
            /\ tick.exchangeCalls = 1 /\ tick.fetchCalls = 0
            /\ tick.reauth = ""
    /\ tick.reauth = "InvalidUserPasswordError"
         => /\ pc = "idle" /\ result = Raise("ConfigEntryAuthFailed") /\ fatal
            /\ tick.exchangeCalls <= 2 /\ tick.fetchCalls = 1

\* A tick after the fatal one has the fetch outstanding.
C15_Witness ==
    /\ fatal
    /\ prev.reauth = "InvalidUserPasswordError"
    /\ pc = "fetch"

\* C16: while the first refresh runs the coordinator is not in the registry
\* and the platforms are not set up; when the first refresh raised, setup
\* has not completed and the registry holds no entry.
C16_FirstRefreshBeforeRegistry ==
    /\ setup = "first_refresh" => (pc # "idle" /\ ~registry /\ ~platforms)
    /\ setup = "failed" => (result.kind = "raise" /\ ~registry /\ ~platforms)
    /\ (registry \/ platforms) => setup = "loaded"

C16_Witness ==
    /\ setup = "failed"
    /\ Ended
    /\ result = Raise("UpdateFailed")
    /\ ~registry

\* The tick recorded in `tick` is the first one of its coordinator.
FirstTick == prev = NewTick(None) /\ tick # NewTick(None)

\* C17: the first tick of a coordinator starts with no token and calls the
\* credential exchange first; the fetch is never called with an absent token.
C17_NewCoordinatorHoldsNoToken ==
    /\ (setup = "first_refresh" \/ FirstTick)
         => /\ tick.startTok = None
            /\ tick.exchange # ""
            /\ tick.exchangeCalls >= 1
    /\ tick.fetchCalls > 0 => tick.fetchTok \in Tokens
    /\ pc = "fetch" => tick.fetchTok \in Tokens

C17_Witness ==
    /\ setup = "first_refresh"
    /\ pc = "fetch"
    /\ tick.exchange = "ok"
    /\ tick.fetchTok = sessionid

\* C18: in a tick the fetch is called at most once and the credential
\* exchange at most twice, once for ensure_token and once forced; the forced
\* one is called only after the fetch of the tick reported session-expired.
C18_CallsPerTick ==
    /\ tick.fetchCalls <= 1
    /\ tick.exchangeCalls <= 2
    /\ tick.exchangeCalls = 2 => (tick.exchange = "ok" /\ tick.reauth # "")
    /\ (tick.reauth # "" \/ pc = "reauth")
         => (tick.fetch = "InvalidSessionIdError" /\ tick.fetchCalls = 1)

C18_Witness ==
    /\ Ended
    /\ tick.exchangeCalls = 2
    /\ tick.fetchCalls = 1

\* C19: a tick that ends with a retryable failure and without a successful
\* credential exchange leaves the held token as it was when the tick started.
C19_RetryableFailureKeepsToken ==
    (Ended /\ result.kind = "raise"
           /\ result.exc \in {"UpdateFailed", "TimeoutError"}
           /\ tick.exchange # "ok" /\ tick.reauth # "ok")
        => (sessionid = tick.startTok /\ tick.endTok = tick.startTok)

C19_Witness ==
    /\ Ended
    /\ tick.fetch = "ApiError"
    /\ tick.startTok \in Tokens
    /\ sessionid = tick.startTok

\* C20: once the service is healthy some tick returns a snapshot, and at most
\* one tick ends without a snapshot from then on.
C20_RecoveryReached ==
    /\ recovery.on ~> recovery.served
    /\ [](recovery.missed <= 1)

C20_Witness ==
    /\ recovery.served
    /\ recovery.missed = 1

====
